---- MODULE Spec2Model ----
(***************************************************************************)
(* Model of zepp.py, the Web3 Promotion Hub bot: an embedded SQL store     *)
(* (projects, services, votes, wallets), the per-user session flag         *)
(* context.user_data['awaiting_service'], and one action per handler that  *)
(* main() registers.  Every handler runs to completion as one action; the  *)
(* outcome of each call that leaves the process (a store statement, a      *)
(* chat API call, the HTTP request) is an input of the action.             *)
(***************************************************************************)
EXTENDS Integers, Sequences, FiniteSets, TLC

\* ---------------------------------------------------------------- bounds
MaxServices == 2
NumAdmins == 2

Users == {1, 2}
\* the user of the runs that follow one user through every handler
SoloUsers == {1}
\* rows of the projects table; no handler inserts one, they are provisioned
\* in the store file before start-up
ProjectIds == {1}
\* ids a 'vote_<id>' button may carry: the projects and one id with no row
VoteIds == ProjectIds \cup {12}

\* ---------------------------------------------------------------- text
\* Callback tags are sequences of characters, so that startswith, slicing
\* and int() are computed as Python computes them.
DigitChars == <<"0", "1", "2", "3", "4", "5", "6", "7", "8", "9">>

DigitVal(c) == (CHOOSE i \in 1 .. 10 : DigitChars[i] = c) - 1

IsDigit(c) == \E i \in 1 .. 10 : DigitChars[i] = c

RECURSIVE FormatInt(_)
\* f'{id}' of a non-negative integer
FormatInt(n) ==
  IF n < 10 THEN <<DigitChars[n + 1]>>
  ELSE FormatInt(n \div 10) \o <<DigitChars[(n % 10) + 1]>>

RECURSIVE DigitsValue(_, _)
DigitsValue(s, acc) ==
  IF s = <<>> THEN acc ELSE DigitsValue(Tail(s), (acc * 10) + DigitVal(Head(s)))

\* int(s) on a string of the tag alphabet (letters, digits, '_'): a value for a
\* non-empty run of digits, ValueError otherwise
ParseInt(s) ==
  IF s # <<>> /\ \A i \in 1 .. Len(s) : IsDigit(s[i])
  THEN [ok |-> TRUE, val |-> DigitsValue(s, 0)]
  ELSE [ok |-> FALSE, val |-> 0]

StartsWith(s, p) == Len(s) >= Len(p) /\ SubSeq(s, 1, Len(p)) = p

\* s[n:]
SliceFrom(s, n) == SubSeq(s, n + 1, Len(s))

PFX_VOTE == <<"v", "o", "t", "e", "_">>
PFX_SERVICE == <<"s", "e", "r", "v", "i", "c", "e", "_">>
MENU == <<"m", "e", "n", "u">>
TAG_SERVICE_MENU == PFX_SERVICE \o MENU
TAG_VOTE_MENU == PFX_VOTE \o MENU
TAG_TRENDS == <<"t", "r", "e", "n", "d", "s">>
TAG_WALLETS == <<"w", "a", "l", "l", "e", "t", "s">>
TAG_FIND_SERVICES == <<"f", "i", "n", "d", "_">> \o <<"s", "e", "r", "v", "i", "c", "e", "s">>

\* the keys of the SERVICE_TYPES dict
K_SHILLING == <<"s", "h", "i", "l", "l", "i", "n", "g">>
K_HYPE == <<"h", "y", "p", "e">>
K_MOD == <<"m", "o", "d">>
K_CM == <<"c", "m">>
K_DEV == <<"d", "e", "v">>
K_DESIGN == <<"d", "e", "s", "i", "g", "n">>
K_OTHER == <<"o", "t", "h", "e", "r">>
SERVICE_TYPES == {K_SHILLING, K_HYPE, K_MOD, K_CM, K_DEV, K_DESIGN, K_OTHER}
CUSTOM == <<"c", "u", "s", "t", "o", "m">>

\* f'vote_{id}' and f'service_{key}', the callback_data the bot puts on buttons
VoteTag(id) == PFX_VOTE \o FormatInt(id)
ServiceTag(key) == PFX_SERVICE \o key

\* ' '.join(context.args)
RECURSIVE JoinArgs(_)
JoinArgs(args) ==
  IF args = <<>> THEN <<>>
  ELSE IF Len(args) = 1 THEN <<args[1]>>
  ELSE <<args[1], " ">> \o JoinArgs(Tail(args))

\* ---------------------------------------------------------------- inputs
\* categories whose button the modelled users press (a subset of the seven)
PressedKeys == {K_DEV, K_HYPE}
\* tags no branch of button_handler is written for
TAG_VOTE_ABC == PFX_VOTE \o <<"a", "b", "c">>
TAG_SERVICE_NFT == PFX_SERVICE \o <<"n", "f", "t">>
\* the tags pressed in the runs that follow one user through every handler
ButtonData ==
  {VoteTag(i) : i \in ProjectIds} \cup {ServiceTag(k) : k \in PressedKeys}
    \cup {TAG_SERVICE_MENU, TAG_VOTE_MENU, TAG_TRENDS, TAG_WALLETS,
          TAG_FIND_SERVICES, TAG_VOTE_ABC, TAG_SERVICE_NFT}
\* the tags of the voting buttons
VoteData == {VoteTag(i) : i \in VoteIds} \cup {TAG_VOTE_MENU, TAG_VOTE_ABC}
\* update.message.text of a free-text message (a sequence of words and blanks)
Texts == {<<"build", " ", "me", " ", "a", " ", "dapp">>}
\* context.args of /promote
ArgLists == {<<>>, <<"nft", "art">>}
\* outcomes of requests.get(...) followed by raise_for_status()
HttpOutcomes == {"ok", "timeout", "network", "status"}
\* outcomes of the store during process_vote: no error; sqlite3.connect
\* raises; the INSERT raises an error that is no IntegrityError; the UPDATE
\* raises and the transaction stays open; the UPDATE raises and SQLite rolls
\* the transaction back; the commit on leaving the with block raises
VoteFaults == {"none", "connect", "insert", "update", "update_rb", "commit"}
\* outcomes of the store elsewhere
StoreFaults == {"none", "error"}

NoFlag == <<>>

WALLET_SEED ==
  {<<"BTC", "1A1zP1eP5QGefi2DMPTfTL5SLmv7DivfNa">>,
   <<"ETH", "0x742d35Cc6634C0532925a3b844Bc454e4438f44e">>}

\* ADMIN_IDS, parsed from the environment at import
ADMIN_IDS == [i \in 1 .. NumAdmins |-> 100 + i]

\* ---------------------------------------------------------------- state
VARIABLES
  projects,   \* projects table: id -> votes
  votes,      \* votes table: <<user_id, project_id>> -> number of rows
  services,   \* services table, in rowid order
  wallets,    \* wallets table: set of <<coin, address>>
  user_data,  \* user -> context.user_data.get('awaiting_service'), or NoFlag
  ev,         \* the update handled last
  out,        \* chat messages the last handler tried to send, in order
  raised,     \* the exception that left the last handler, or "none"
  called,     \* the functions the last handler's dispatch reached
  logged,     \* logger.error calls of the last handler
  httpCalls,  \* requests.get calls of the last handler
  tasks       \* handler coroutines in flight when updates are handled concurrently

vars == <<projects, votes, services, wallets, user_data, ev, out, raised,
          called, logged, httpCalls, tasks>>

store == <<projects, votes, services, wallets>>

\* ---------------------------------------------------------------- init_db
init_db_SeedsWhenFilled(w) == IF w # {} THEN w \cup WALLET_SEED ELSE w

\* CREATE TABLE IF NOT EXISTS leaves existing tables alone; the two wallets
\* are inserted only into an empty wallets table
init_db(w) == IF w = {} THEN WALLET_SEED ELSE w

Msg(to, msg, body, ok) == [to |-> to, msg |-> msg, body |-> body, ok |-> ok]

\* what a handler starts from: the store and flags as they are, nothing sent
R0 ==
  [projects |-> projects, votes |-> votes, services |-> services,
   user_data |-> user_data, out |-> <<>>, raised |-> "none",
   called |-> <<>>, logged |-> <<>>, httpCalls |-> 0]

Say(r, m) ==
  [r EXCEPT !.out = Append(@, m),
            !.raised = IF m.ok THEN r.raised ELSE "TelegramError"]

Raise(r, e) == [r EXCEPT !.raised = e]

\* ---------------------------------------------------------------- voting
InsertVoteViolates_NoPrimaryKey(v, key) == FALSE

\* INSERT INTO votes: the PRIMARY KEY (user_id, project_id) rejects a second row
InsertVoteViolates(v, key) == v[key] > 0

InsertVote(v, key) == [v EXCEPT ![key] = @ + 1]

\* UPDATE projects SET votes = votes + 1 WHERE id = ?
UpdateProject(p, project_id) ==
  IF project_id \in DOMAIN p THEN [p EXCEPT ![project_id] = @ + 1] ELSE p

\* leaving 'with sqlite3.connect(...) as conn' without an exception commits
VoteCommit(r, pend, fault) ==
  IF fault = "commit" /\ pend # <<r.votes, r.projects>>
  THEN Raise(r, "OperationalError")
  ELSE [r EXCEPT !.votes = pend[1], !.projects = pend[2]]

\* except Exception: log, report, and leave the with block normally
VoteGenericHandler(r, user_id, pend, fault, ok2) ==
  LET r1 == Say([r EXCEPT !.logged = Append(@, <<"vote">>)],
                Msg(user_id, "vote_failed", {}, ok2))
  IN  IF ok2 THEN VoteCommit(r1, pend, fault) ELSE r1

process_vote(r0, user_id, project_id, fault, ok1, ok2) ==
  LET r == [r0 EXCEPT !.called = Append(@, "process_vote")]
      key == <<user_id, project_id>>
      none == <<r.votes, r.projects>>
      ins == <<InsertVote(r.votes, key), r.projects>>
      upd == <<ins[1], UpdateProject(r.projects, project_id)>>
  IN  IF fault = "connect" THEN Raise(r, "OperationalError")
      ELSE IF fault = "insert" THEN VoteGenericHandler(r, user_id, none, fault, ok2)
      ELSE IF InsertVoteViolates(r.votes, key)
      THEN Say(r, Msg(user_id, "already_voted", {}, ok1))
      ELSE IF fault = "update" THEN VoteGenericHandler(r, user_id, ins, fault, ok2)
      ELSE IF fault = "update_rb" THEN VoteGenericHandler(r, user_id, none, fault, ok2)
      ELSE IF ok1
      THEN VoteCommit(Say(r, Msg(user_id, "vote_counted", {}, TRUE)), upd, fault)
      ELSE VoteGenericHandler(
             [Say(r, Msg(user_id, "vote_counted", {}, FALSE)) EXCEPT !.raised = "none"],
             user_id, upd, fault, ok2)

\* ---------------------------------------------------------------- services
ServiceRow(user_id, service_type, description) ==
  [user_id |-> user_id, service_type |-> service_type,
   description |-> description, is_active |-> 1]

InsertService_Replaces(s, user_id, service_type, description) ==
  <<ServiceRow(user_id, service_type, description)>>

\* INSERT INTO services (user_id, service_type, description) VALUES (?, ?, ?)
InsertService(s, user_id, service_type, description) ==
  Append(s, ServiceRow(user_id, service_type, description))

GetChatUsernameRaises_Awaited == FALSE

\* context.bot.get_chat(user_id).username: get_chat is a coroutine function of
\* the chat library and is called without await, so the attribute is looked up
\* on a coroutine object and AttributeError is raised
GetChatUsernameRaises == TRUE

NotifyFailed_Propagates(r, admin_id) == Raise(r, "AttributeError")

\* the except clause of the notification loop: caught and logged
NotifyFailed(r, admin_id) == [r EXCEPT !.logged = Append(@, <<"notify", admin_id>>)]

\* one iteration of 'for admin_id in ADMIN_IDS'
NotifyAdmin(r, admin_id, user_id, service_type, ok) ==
  IF GetChatUsernameRaises THEN NotifyFailed(r, admin_id)
  ELSE IF ok
  THEN [r EXCEPT !.out = Append(@, Msg(admin_id, "admin_notice", {service_type}, TRUE))]
  ELSE NotifyFailed(
         [r EXCEPT !.out = Append(@, Msg(admin_id, "admin_notice", {service_type}, FALSE))],
         admin_id)

RECURSIVE NotifyAll(_, _, _, _, _)
NotifyAll(r, i, user_id, service_type, nok) ==
  IF i > Len(ADMIN_IDS) \/ r.raised # "none" THEN r
  ELSE NotifyAll(NotifyAdmin(r, ADMIN_IDS[i], user_id, service_type, nok[i]),
                 i + 1, user_id, service_type, nok)

submit_service(r0, user_id, service_type, description, fault, nok) ==
  LET r == [r0 EXCEPT !.called = Append(@, "submit_service")]
  IN  IF fault = "error" THEN Raise(r, "OperationalError")
      ELSE NotifyAll(
             [r EXCEPT !.services = InsertService(@, user_id, service_type, description)],
             1, user_id, service_type, nok)

\* ---------------------------------------------------------------- replies
\* update.message.reply_text(...): a callback-query update has no message, so
\* the attribute lookup on None raises AttributeError
Reply(r, viaButton, m) ==
  IF viaButton THEN Raise(r, "AttributeError") ELSE Say(r, m)

\* ---------------------------------------------------------------- commands
START_KEYBOARD ==
  {TAG_VOTE_MENU, TAG_TRENDS, TAG_SERVICE_MENU, TAG_FIND_SERVICES, TAG_WALLETS}

start(r0, user, ok) ==
  Say([r0 EXCEPT !.called = Append(@, "start")], Msg(user, "welcome", START_KEYBOARD, ok))

crypto_trends_NoExcept(r0, viaButton, user, http, ok) ==
  LET r == [r0 EXCEPT !.called = Append(@, "crypto_trends"), !.httpCalls = @ + 1]
  IN  IF http = "ok" THEN Reply(r, viaButton, Msg(user, "trends_list", {}, ok))
      ELSE Raise(r, "RequestException")

crypto_trends(r0, viaButton, user, http, ok) ==
  LET r == [r0 EXCEPT !.called = Append(@, "crypto_trends"), !.httpCalls = @ + 1]
  IN  IF http = "ok" THEN Reply(r, viaButton, Msg(user, "trends_list", {}, ok))
      ELSE Reply([r EXCEPT !.logged = Append(@, <<"trends">>)], viaButton,
                 Msg(user, "trends_fallback", {}, ok))

\* SELECT id, name, votes FROM projects ORDER BY votes DESC LIMIT 10
TopProjects(p) ==
  IF Cardinality(DOMAIN p) <= 10 THEN DOMAIN p
  ELSE CHOOSE S \in SUBSET DOMAIN p :
         /\ Cardinality(S) = 10
         /\ \A a \in S, b \in (DOMAIN p) \ S : p[a] >= p[b]

vote_project(r0, viaButton, user, fault, ok) ==
  LET r == [r0 EXCEPT !.called = Append(@, "vote_project")]
  IN  IF fault = "error" THEN Raise(r, "OperationalError")
      ELSE IF DOMAIN r.projects = {}
      THEN Reply(r, viaButton, Msg(user, "no_projects", {}, ok))
      ELSE Reply(r, viaButton,
                 Msg(user, "vote_menu", {VoteTag(id) : id \in TopProjects(r.projects)}, ok))

SERVICE_KEYBOARD == {ServiceTag(key) : key \in SERVICE_TYPES}

promote_service_ClearsFlag(r0, user, args, fault, nok, ok) ==
  LET r == [r0 EXCEPT !.called = Append(@, "promote_service"),
                      !.user_data[user] = NoFlag]
  IN  IF args = <<>> THEN Say(r, Msg(user, "service_menu", SERVICE_KEYBOARD, ok))
      ELSE LET r1 == submit_service(r, user, CUSTOM, JoinArgs(args), fault, nok)
           IN  IF r1.raised # "none" THEN r1
               ELSE Say(r1, Msg(user, "service_submitted", {}, ok))

promote_service(r0, user, args, fault, nok, ok) ==
  LET r == [r0 EXCEPT !.called = Append(@, "promote_service")]
  IN  IF args = <<>> THEN Say(r, Msg(user, "service_menu", SERVICE_KEYBOARD, ok))
      ELSE LET r1 == submit_service(r, user, CUSTOM, JoinArgs(args), fault, nok)
           IN  IF r1.raised # "none" THEN r1
               ELSE Say(r1, Msg(user, "service_submitted", {}, ok))

show_wallets(r0, viaButton, user, fault, ok) ==
  LET r == [r0 EXCEPT !.called = Append(@, "show_wallets")]
  IN  IF fault = "error" THEN Raise(r, "OperationalError")
      ELSE Reply(r, viaButton, Msg(user, "wallets", wallets, ok))

\* ---------------------------------------------------------------- buttons
show_service_menu(r0, user, ok) ==
  Say([r0 EXCEPT !.called = Append(@, "show_service_menu")],
      Msg(user, "service_menu", SERVICE_KEYBOARD, ok))

SelectService_SetsEveryFlag(r0, user, service_type, ok) ==
  LET r == [r0 EXCEPT !.called = Append(@, "select_service")]
  IN  IF service_type \notin SERVICE_TYPES THEN Raise(r, "KeyError")
      ELSE LET r1 == Say(r, Msg(user, "describe_prompt", {service_type}, ok))
           IN  IF ok THEN [r1 EXCEPT !.user_data = [u \in DOMAIN @ |-> service_type]]
               ELSE r1

SelectService_NoLookup(r0, user, service_type, ok) ==
  LET r == [r0 EXCEPT !.called = Append(@, "select_service")]
      r1 == Say(r, Msg(user, "describe_prompt", {service_type}, ok))
  IN  IF ok THEN [r1 EXCEPT !.user_data[user] = service_type] ELSE r1

\* the 'service_' branch: SERVICE_TYPES[service_type] is looked up while the
\* prompt is built, the flag is stored after the awaited edit
SelectService(r0, user, service_type, ok) ==
  LET r == [r0 EXCEPT !.called = Append(@, "select_service")]
  IN  IF service_type \notin SERVICE_TYPES THEN Raise(r, "KeyError")
      ELSE LET r1 == Say(r, Msg(user, "describe_prompt", {service_type}, ok))
           IN  IF ok THEN [r1 EXCEPT !.user_data[user] = service_type] ELSE r1

VoteBranch(r, user, data, fault, ok1, ok2) ==
  LET n == ParseInt(SliceFrom(data, 5))
  IN  IF n.ok THEN process_vote(r, user, n.val, fault, ok1, ok2)
      ELSE Raise(r, "ValueError")

button_handler(r, user, data, aok, fault, http, ok1, ok2) ==
  IF ~aok THEN Raise(r, "TelegramError")
  ELSE IF StartsWith(data, PFX_VOTE) THEN VoteBranch(r, user, data, fault, ok1, ok2)
  ELSE IF StartsWith(data, PFX_SERVICE) THEN SelectService(r, user, SliceFrom(data, 8), ok1)
  ELSE IF data = TAG_SERVICE_MENU THEN show_service_menu(r, user, ok1)
  ELSE IF data = TAG_VOTE_MENU THEN vote_project(r, TRUE, user, fault, ok1)
  ELSE IF data = TAG_TRENDS THEN crypto_trends(r, TRUE, user, http, ok1)
  ELSE IF data = TAG_WALLETS THEN show_wallets(r, TRUE, user, fault, ok1)
  ELSE r

\* ---------------------------------------------------------------- free text
handle_service_description_Unguarded(r0, user, text, fault, nok, ok) ==
  LET r == [r0 EXCEPT !.called = Append(@, "handle_service_description")]
      r1 == submit_service(r, user, r.user_data[user], text, fault, nok)
  IN  IF r1.raised # "none" THEN r1
      ELSE Say([r1 EXCEPT !.user_data[user] = NoFlag],
               Msg(user, "service_submitted", {}, ok))

handle_service_description_KeepsFlag(r0, user, text, fault, nok, ok) ==
  LET r == [r0 EXCEPT !.called = Append(@, "handle_service_description")]
  IN  IF r.user_data[user] = NoFlag THEN r
      ELSE LET r1 == submit_service(r, user, r.user_data[user], text, fault, nok)
           IN  IF r1.raised # "none" THEN r1
               ELSE Say(r1, Msg(user, "service_submitted", {}, ok))

handle_service_description(r0, user, text, fault, nok, ok) ==
  LET r == [r0 EXCEPT !.called = Append(@, "handle_service_description")]
  IN  IF r.user_data[user] = NoFlag THEN r
      ELSE LET r1 == submit_service(r, user, r.user_data[user], text, fault, nok)
           IN  IF r1.raised # "none" THEN r1
               ELSE Say([r1 EXCEPT !.user_data[user] = NoFlag],
                        Msg(user, "service_submitted", {}, ok))

\* ---------------------------------------------------------------- coroutines
\* slots of the handler coroutines in flight; a lower slot holds the update
\* that arrived earlier
Tasks == {1, 2}

IdleTask ==
  [kind |-> "idle", pc |-> "idle", user |-> 0, data |-> <<>>, sel |-> NoFlag,
   i |-> 0, raised |-> "none"]

\* a coroutine that has returned or raised
Done(task, e) == [task EXCEPT !.pc = "done", !.raised = e]

\* the admin loop from iteration i on: the index of the first iteration whose
\* send_message is really awaited, 0 when the loop ends without suspending
FirstSend(i) ==
  IF GetChatUsernameRaises \/ i > Len(ADMIN_IDS) THEN 0 ELSE i

\* handle_service_description once submit_service has returned: the flag is
\* deleted (KeyError when it is no longer there) and reply_text is awaited
AfterSubmit(task, flags) ==
  IF flags[task.user] = NoFlag
  THEN [task |-> Done(task, "KeyError"), user_data |-> flags]
  ELSE [task |-> [task EXCEPT !.pc = "reply"],
        user_data |-> [flags EXCEPT ![task.user] = NoFlag]]

\* submit_service after the INSERT: run the admin loop up to its first
\* suspension, or through to the end and on into the caller
AfterInsert(task, flags, i) ==
  IF FirstSend(i) = 0 THEN AfterSubmit(task, flags)
  ELSE [task |-> [task EXCEPT !.pc = "notify", !.i = FirstSend(i)],
        user_data |-> flags]

\* ---------------------------------------------------------------- actions
Event(kind, cmd, user, data, fault, http) ==
  [kind |-> kind, cmd |-> cmd, user |-> user, data |-> data, fault |-> fault,
   http |-> http]

\* the outcomes of the chat sends of the admin loop, one per administrator
\* (no input when no send is reached)
NotifyOutcomes ==
  IF GetChatUsernameRaises THEN {[i \in 1 .. NumAdmins |-> TRUE]}
  ELSE [1 .. NumAdmins -> BOOLEAN]

\* the outcomes of the chat calls of a button press: query.answer(), the first
\* message sent or edited, and the failure report of process_vote; a call that
\* is not reached has no outcome
ChatOutcomes ==
  {c \in [answer : BOOLEAN, first : BOOLEAN, second : BOOLEAN] :
     /\ ~c.answer => (c.first /\ c.second)}

\* the store faults a button press can meet: those of process_vote for a
\* 'vote_<digits>' tag, those of the SELECT for 'wallets'
ButtonFaults(data) ==
  IF StartsWith(data, PFX_VOTE) /\ ParseInt(SliceFrom(data, 5)).ok THEN VoteFaults
  ELSE IF data = TAG_WALLETS THEN StoreFaults
  ELSE {"none"}

ButtonHttp(data) == IF data = TAG_TRENDS THEN HttpOutcomes ELSE {"none"}

\* the handler's result becomes the state; the services table is capped
Apply(result, e) ==
  \E r \in {result} :
  /\ Len(r.services) <= MaxServices
  /\ projects' = r.projects
  /\ votes' = r.votes
  /\ services' = r.services
  /\ user_data' = r.user_data
  /\ out' = r.out
  /\ raised' = r.raised
  /\ called' = r.called
  /\ logged' = r.logged
  /\ httpCalls' = r.httpCalls
  /\ ev' = e
  /\ UNCHANGED <<wallets, tasks>>

Init ==
  /\ projects = [p \in ProjectIds |-> 0]
  /\ votes = [k \in Users \X VoteIds |-> 0]
  /\ services = <<>>
  /\ wallets = init_db({})
  /\ user_data = [u \in Users |-> NoFlag]
  /\ ev = Event("init", "", 0, <<>>, "none", "none")
  /\ out = <<>>
  /\ raised = "none"
  /\ called = <<>>
  /\ logged = <<>>
  /\ httpCalls = 0
  /\ tasks = [t \in Tasks |-> IdleTask]

\* /start
StartOf(U) ==
  \E u \in U, ok \in BOOLEAN :
    Apply(start(R0, u, ok), Event("command", "start", u, <<>>, "none", "none"))

\* /trends
TrendsOf(U) ==
  \E u \in U, http \in HttpOutcomes, ok \in BOOLEAN :
    Apply(crypto_trends(R0, FALSE, u, http, ok),
          Event("command", "trends", u, <<>>, "none", http))

\* /vote
VoteOf(U) ==
  \E u \in U, fault \in StoreFaults, ok \in BOOLEAN :
    Apply(vote_project(R0, FALSE, u, fault, ok),
          Event("command", "vote", u, <<>>, fault, "none"))

\* /promote [text]
PromoteOf(U) ==
  \E u \in U, args \in ArgLists, ok \in BOOLEAN, nok \in NotifyOutcomes,
     fault \in StoreFaults :
    /\ args = <<>> => fault = "none"
    /\ Apply(promote_service(R0, u, args, fault, nok, ok),
             Event("command", "promote", u, args, fault, "none"))

\* /wallets
WalletsOf(U) ==
  \E u \in U, fault \in StoreFaults, ok \in BOOLEAN :
    Apply(show_wallets(R0, FALSE, u, fault, ok),
          Event("command", "wallets", u, <<>>, fault, "none"))

\* a pressed inline button carrying one of the tags D
ButtonOf(U, D) ==
  \E u \in U, data \in D, c \in ChatOutcomes :
    \E fault \in ButtonFaults(data), http \in ButtonHttp(data) :
      /\ ButtonFaults(data) # VoteFaults => c.second
      /\ Apply(button_handler(R0, u, data, c.answer, fault, http, c.first, c.second),
               Event("button", "", u, data, fault, http))

\* a text message that is no command
TextOf(U) ==
  \E u \in U, text \in Texts, ok \in BOOLEAN, nok \in NotifyOutcomes,
     fault \in StoreFaults :
    /\ user_data[u] = NoFlag => fault = "none"
    /\ Apply(handle_service_description(R0, u, text, fault, nok, ok),
             Event("text", "", u, text, fault, "none"))

\* the process stops and main() runs again: init_db on the store as it is,
\* and the in-memory user_data starts empty
Restart ==
  /\ wallets' = init_db(wallets)
  /\ user_data' = [u \in Users |-> NoFlag]
  /\ ev' = Event("restart", "", 0, <<>>, "none", "none")
  /\ out' = <<>>
  /\ raised' = "none"
  /\ called' = <<>>
  /\ logged' = <<>>
  /\ httpCalls' = 0
  /\ UNCHANGED <<projects, votes, services, tasks>>

\* ---- every handler, for the updates of one user
Start == StartOf(SoloUsers)

Trends == TrendsOf(SoloUsers)

Vote == VoteOf(SoloUsers)

Promote == PromoteOf(SoloUsers)

Wallets == WalletsOf(SoloUsers)

Button == ButtonOf(SoloUsers, ButtonData)

Text == TextOf(SoloUsers)

Next ==
  \/ Start
  \/ Trends
  \/ Vote
  \/ Promote
  \/ Wallets
  \/ Button
  \/ Text
  \/ Restart

Spec == Init /\ [][Next]_vars

\* ---- the voting handlers, for the updates of every user
VoteMenu == VoteOf(Users)

VoteButton == ButtonOf(Users, VoteData)

NextVote ==
  \/ VoteMenu
  \/ VoteButton
  \/ Restart

SpecVote == Init /\ [][NextVote]_vars

\* ---- the service handlers, for the updates of every user
\* the tags of the category buttons, and the menu tag that shares their prefix
ServiceData == {ServiceTag(k) : k \in PressedKeys} \cup {TAG_SERVICE_MENU}

ServiceButton == ButtonOf(Users, ServiceData)

ServiceText == TextOf(Users)

ServicePromote == PromoteOf(Users)

NextService ==
  \/ ServiceButton
  \/ ServiceText
  \/ ServicePromote
  \/ Restart

SpecService == Init /\ [][NextService]_vars

\* ---- the service handlers of one user as concurrently running coroutines,
\* switching only where a coroutine really suspends
SlotFree(t) ==
  /\ tasks[t].kind = "idle"
  /\ \A s \in Tasks : s < t => tasks[s].kind # "idle"

RaceFrame ==
  UNCHANGED <<projects, votes, wallets, ev, out, raised, called, logged, httpCalls>>

\* button_handler starts and suspends in query.answer()
RacePress(t, u, data) ==
  /\ SlotFree(t)
  /\ tasks' = [tasks EXCEPT ![t] = [IdleTask EXCEPT !.kind = "button", !.pc = "answer",
                                                    !.user = u, !.data = data]]
  /\ UNCHANGED <<services, user_data>>
  /\ RaceFrame

\* handle_service_description starts and runs to its first suspension
RaceText(t, u, text, fault) ==
  LET task == [IdleTask EXCEPT !.kind = "text", !.user = u, !.data = text,
                               !.sel = user_data[u]]
  IN  /\ SlotFree(t)
      /\ user_data[u] = NoFlag => fault = "none"
      /\ IF user_data[u] = NoFlag \/ fault = "error"
         THEN /\ tasks' = [tasks EXCEPT ![t] =
                             Done(task, IF fault = "error" THEN "OperationalError"
                                        ELSE "none")]
              /\ UNCHANGED <<services, user_data>>
         ELSE \E r \in {AfterInsert(task, user_data, 1)} :
                /\ Len(services) < MaxServices
                /\ services' = InsertService(services, u, task.sel, text)
                /\ tasks' = [tasks EXCEPT ![t] = r.task]
                /\ user_data' = r.user_data
      /\ RaceFrame

\* a suspended coroutine is resumed with the outcome of the call it awaited
\* and runs to its next suspension or its end
RaceResume(t, ok) ==
  LET task == tasks[t]
      service_type == SliceFrom(task.data, 8)
  IN  /\ task.pc \in {"answer", "edit", "notify", "reply"}
      /\ \E r \in {IF task.pc = "answer"
                    THEN [task |-> IF ~ok THEN Done(task, "TelegramError")
                                   ELSE IF service_type \notin SERVICE_TYPES
                                   THEN Done(task, "KeyError")
                                   ELSE [task EXCEPT !.pc = "edit"],
                          user_data |-> user_data]
                    ELSE IF task.pc = "edit"
                    THEN IF ok
                         THEN [task |-> Done(task, "none"),
                               user_data |-> [user_data EXCEPT ![task.user] = service_type]]
                         ELSE [task |-> Done(task, "TelegramError"), user_data |-> user_data]
                    ELSE IF task.pc = "notify"
                    THEN AfterInsert(task, user_data, task.i + 1)
                    ELSE [task |-> Done(task, IF ok THEN "none" ELSE "TelegramError"),
                          user_data |-> user_data]} :
           /\ tasks' = [tasks EXCEPT ![t] = r.task]
           /\ user_data' = r.user_data
      /\ UNCHANGED services
      /\ RaceFrame

ConcurrentPress ==
  \E t \in Tasks, u \in SoloUsers, data \in ServiceData : RacePress(t, u, data)

ConcurrentText ==
  \E t \in Tasks, u \in SoloUsers, text \in Texts, fault \in StoreFaults :
    RaceText(t, u, text, fault)

Resume == \E t \in Tasks, ok \in BOOLEAN : RaceResume(t, ok)

\* every coroutine in flight has ended; the next updates find free slots
Drain ==
  /\ \A t \in Tasks : tasks[t].pc \in {"idle", "done"}
  /\ \E t \in Tasks : tasks[t].pc = "done"
  /\ tasks' = [t \in Tasks |-> IdleTask]
  /\ UNCHANGED <<services, user_data>>
  /\ RaceFrame

NextRace ==
  \/ ConcurrentPress
  \/ ConcurrentText
  \/ Resume
  \/ Drain

SpecRace == Init /\ [][NextRace]_vars

\* ================================================================ claims
\* the project a handled 'vote_<id>' press named
VotedProject(e) == ParseInt(SliceFrom(e.data, 5)).val

\* the last handler was a button press that reached process_vote
VoteCall(e, c) == e.kind = "button" /\ c = <<"process_vote">>

\* number of vote rows of project p
RECURSIVE SumRows(_, _, _)
SumRows(v, p, U) ==
  IF U = {} THEN 0
  ELSE LET u == CHOOSE x \in U : TRUE
       IN  v[<<u, p>>] + SumRows(v, p, U \ {u})

\* C1: for every user and project there is at most one vote row, and a
\* process_vote(u, p) call made while the row (u, p) exists adds no row, leaves
\* every vote counter unchanged and, the store having evaluated the INSERT,
\* answers with the 'already voted' message and nothing else.
C1_OneVotePerPair ==
  /\ [](\A k \in Users \X VoteIds : votes[k] <= 1)
  /\ [][(/\ VoteCall(ev', called')
         /\ votes[<<ev'.user, VotedProject(ev')>>] > 0)
        => (/\ votes' = votes
            /\ projects' = projects
            /\ (ev'.fault \notin {"connect", "insert"}
                => (/\ Len(out') = 1
                    /\ out'[1].to = ev'.user
                    /\ out'[1].msg = "already_voted")))]_vars

C1_Witness ==
  /\ VoteCall(ev, called)
  /\ ev.fault = "none"
  /\ votes[<<ev.user, VotedProject(ev)>>] = 1
  /\ Len(out) = 1
  /\ out[1].msg = "already_voted"
  /\ out[1].ok

\* C2: in every committed store state each existing project's votes counter
\* equals the number of vote rows for that project.
C2_CounterEqualsRows ==
  \A p \in DOMAIN projects : projects[p] = SumRows(votes, p, Users)

\* C6: whenever process_vote reports the generic failure, the call has added
\* no vote row and changed no counter.
C6_FailureAbandons ==
  [][(/\ VoteCall(ev', called')
      /\ \E i \in 1 .. Len(out') : out'[i].msg = "vote_failed" /\ out'[i].ok)
     => (votes' = votes /\ projects' = projects)]_vars

\* C3: after a 'service_<category>' press the next free-text message of the
\* user inserts exactly one service row of that category and clears the flag;
\* a further free-text message inserts no row.
C3_SelectThenDescribe ==
  [][/\ \A k \in SERVICE_TYPES :
          (/\ ev.kind = "button"
           /\ ev.data = ServiceTag(k)
           /\ raised = "none"
           /\ ev'.kind = "text"
           /\ ev'.user = ev.user
           /\ ev'.fault = "none")
          => (/\ services'
                   = Append(services,
                            [user_id |-> ev.user, service_type |-> k,
                             description |-> ev'.data, is_active |-> 1])
              /\ user_data'[ev.user] = NoFlag)
     /\ (/\ ev.kind = "text"
         /\ ev.fault = "none"
         /\ ev'.kind = "text"
         /\ ev'.user = ev.user)
        => services' = services]_vars

C3_Witness ==
  /\ ev.kind = "text"
  /\ called = <<"handle_service_description">>
  /\ user_data[ev.user] = NoFlag
  /\ Len(services) = 1
  /\ services[1].user_id = ev.user
  /\ services[1].service_type = K_DEV
  /\ services[1].description = ev.data

\* the function each documented callback tag is documented to reach
DocumentedTarget(data) ==
  IF data = TAG_SERVICE_MENU THEN "show_service_menu"
  ELSE IF data = TAG_VOTE_MENU THEN "vote_project"
  ELSE IF data = TAG_TRENDS THEN "crypto_trends"
  ELSE IF data = TAG_WALLETS THEN "show_wallets"
  ELSE IF StartsWith(data, PFX_VOTE) THEN "process_vote"
  ELSE "select_service"

DocumentedTags ==
  {VoteTag(i) : i \in VoteIds} \cup {ServiceTag(k) : k \in SERVICE_TYPES}
    \cup {TAG_SERVICE_MENU, TAG_VOTE_MENU, TAG_TRENDS, TAG_WALLETS}

\* C4: button_handler takes each documented callback tag to its documented
\* action; the literals 'service_menu' and 'vote_menu' reach show_service_menu
\* and vote_project.
C4_DocumentedDispatch ==
  (/\ ev.kind = "button"
   /\ ev.data \in DocumentedTags
   /\ raised # "TelegramError")
  => (called # <<>> /\ called[1] = DocumentedTarget(ev.data))

\* C5: when the market-data request of /trends times out, fails at the network
\* level or returns a non-success status, exactly the fallback reply is sent,
\* one request is made, and nothing is raised once the reply is delivered.
C5_TrendsFallback ==
  (ev.kind = "command" /\ ev.cmd = "trends" /\ ev.http # "ok")
  => (/\ Len(out) = 1
      /\ out[1].to = ev.user
      /\ out[1].msg = "trends_fallback"
      /\ httpCalls = 1
      /\ (out[1].ok => raised = "none"))

C5_Witness ==
  /\ ev.kind = "command"
  /\ ev.cmd = "trends"
  /\ ev.http = "timeout"
  /\ out = <<Msg(ev.user, "trends_fallback", {}, TRUE)>>
  /\ raised = "none"

\* the last handler called submit_service and the INSERT was committed
SubmitCall ==
  /\ \E i \in 1 .. Len(called) : called[i] = "submit_service"
  /\ ev.fault = "none"

NoticesTo(a) ==
  {j \in 1 .. Len(out) : out[j].msg = "admin_notice" /\ out[j].to = a}

\* C7: a failed notification is caught and logged for its administrator only;
\* every administrator is still processed, the inserted row stays, and the
\* caller sends the 'Service submitted' reply and clears the session flag.
C7_NotifyFailureIsolated ==
  SubmitCall
  => (/\ \A i \in 1 .. Len(ADMIN_IDS) :
            \/ \E j \in NoticesTo(ADMIN_IDS[i]) : out[j].ok
            \/ Cardinality({l \in 1 .. Len(logged) :
                              logged[l] = <<"notify", ADMIN_IDS[i]>>}) = 1
      /\ services # <<>>
      /\ services[Len(services)].user_id = ev.user
      /\ services[Len(services)].description
           = (IF ev.kind = "text" THEN ev.data ELSE <<"nft", " ", "art">>)
      /\ out # <<>>
      /\ out[Len(out)].to = ev.user
      /\ out[Len(out)].msg = "service_submitted"
      /\ (out[Len(out)].ok => raised = "none")
      /\ (ev.kind = "text" => user_data[ev.user] = NoFlag))

C7_Witness ==
  /\ SubmitCall
  /\ ev.kind = "text"
  /\ Len(ADMIN_IDS) >= 2
  /\ logged = [i \in 1 .. Len(ADMIN_IDS) |-> <<"notify", ADMIN_IDS[i]>>]
  /\ out[Len(out)] = Msg(ev.user, "service_submitted", {}, TRUE)
  /\ raised = "none"

\* C8: after a successful service insert every configured administrator is
\* sent exactly one notification message.
C8_EveryAdminNotified ==
  SubmitCall
  => \A i \in 1 .. Len(ADMIN_IDS) : Cardinality(NoticesTo(ADMIN_IDS[i])) = 1

Coins(w) == {x[1] : x \in w}

\* C9: the wallets table holds exactly the BTC and ETH entries after init_db,
\* after every restart and after every handler, and show_wallets lists
\* exactly those two.
C9_WalletsFixed ==
  /\ Cardinality(wallets) = 2
  /\ Coins(wallets) = {"BTC", "ETH"}
  /\ \A j \in 1 .. Len(out) :
       out[j].msg = "wallets"
       => (Cardinality(out[j].body) = 2 /\ Coins(out[j].body) = {"BTC", "ETH"})

C9_Witness ==
  /\ ev.kind = "command"
  /\ ev.cmd = "wallets"
  /\ services # <<>>
  /\ Len(out) = 1
  /\ out[1].msg = "wallets"
  /\ out[1].ok
  /\ Coins(out[1].body) = {"BTC", "ETH"}

\* C10: a submission adds exactly one service row with its category, its
\* description, the submitter's identifier and the active flag 1; no step
\* changes or removes an existing service row.
C10_ServiceRowsOnlyAppended ==
  [][/\ services' # services
        => /\ \E i \in 1 .. Len(called') : called'[i] = "submit_service"
           /\ \/ /\ ev'.kind = "text"
                 /\ services'
                      = Append(services,
                               [user_id |-> ev'.user,
                                service_type |-> user_data[ev'.user],
                                description |-> ev'.data, is_active |-> 1])
              \/ /\ ev'.kind = "command"
                 /\ ev'.cmd = "promote"
                 /\ ev'.data = <<"nft", "art">>
                 /\ services'
                      = Append(services,
                               [user_id |-> ev'.user, service_type |-> CUSTOM,
                                description |-> <<"nft", " ", "art">>,
                                is_active |-> 1])
     /\ (/\ \E i \in 1 .. Len(called') : called'[i] = "submit_service"
         /\ ev'.fault = "none")
        => Len(services') = Len(services) + 1]_vars

C10_Witness ==
  /\ ev.kind = "command"
  /\ ev.cmd = "promote"
  /\ Len(services) = 2
  /\ services[1].service_type = K_DEV
  /\ services[2] = [user_id |-> ev.user, service_type |-> CUSTOM,
                    description |-> <<"nft", " ", "art">>, is_active |-> 1]

\* a tag button_handler is documented to act on
RecognizedTag(data) ==
  \/ data \in {TAG_SERVICE_MENU, TAG_VOTE_MENU, TAG_TRENDS, TAG_WALLETS}
  \/ StartsWith(data, PFX_VOTE) /\ ParseInt(SliceFrom(data, 5)).ok
  \/ StartsWith(data, PFX_SERVICE) /\ SliceFrom(data, 8) \in SERVICE_TYPES

\* C11: a press whose tag is not a recognized one is silently ignored once the
\* callback is answered: nothing is raised, no message is sent or edited, and
\* the session flags and the store stay as they were.
C11_UnrecognizedIgnored ==
  [][(/\ ev'.kind = "button"
      /\ ~RecognizedTag(ev'.data)
      /\ raised' # "TelegramError")
     => (/\ raised' = "none"
         /\ out' = <<>>
         /\ user_data' = user_data
         /\ store' = store)]_vars

\* C12: no failure escapes a handler: whatever fails in the store, the HTTP
\* call or a chat send, the handler ends without raising.
C12_NoFailureEscapes ==
  ev.kind \in {"command", "button", "text"} => raised = "none"


\* the tag is a category selection: 'service_<key of SERVICE_TYPES>'
CategoryPress(data) ==
  StartsWith(data, PFX_SERVICE) /\ SliceFrom(data, 8) \in SERVICE_TYPES

\* C13: every command and every button press that is no category selection
\* leaves the session flags as they are; a completed 'service_<category>' press
\* makes that category the user's flag; and a free-text message of a user with
\* a pending flag, the store accepting the INSERT, appends one row under that
\* flag and clears it.
C13_FlagSurvivesUntilText ==
  [][/\ (ev'.kind = "command" => user_data' = user_data)
     /\ (ev'.kind = "button" /\ ~CategoryPress(ev'.data)
           => user_data' = user_data)
     /\ (ev'.kind = "button" /\ CategoryPress(ev'.data) /\ raised' = "none"
           => user_data' = [user_data EXCEPT ![ev'.user] = SliceFrom(ev'.data, 8)])
     /\ (ev'.kind = "text" /\ user_data[ev'.user] # NoFlag /\ ev'.fault = "none"
           => (/\ services'
                    = Append(services,
                             [user_id |-> ev'.user,
                              service_type |-> user_data[ev'.user],
                              description |-> ev'.data, is_active |-> 1])
               /\ user_data' = [user_data EXCEPT ![ev'.user] = NoFlag]))]_vars

C13_Witness ==
  /\ ev.kind = "text"
  /\ called = <<"handle_service_description">>
  /\ Len(services) = 2
  /\ services[1].service_type = CUSTOM
  /\ services[2].service_type = K_HYPE
  /\ services[2].description = ev.data
  /\ user_data[ev.user] = NoFlag


\* C14: a free-text message of a user with no pending flag is ignored: no row is
\* inserted, nothing is sent to the user or to an administrator, nothing is
\* raised. A restart empties every flag and keeps every committed row, so the
\* text message that follows it is ignored in the same way.
C14_TextWithoutFlagIgnored ==
  [][/\ (ev'.kind = "text" /\ user_data[ev'.user] = NoFlag
           => (/\ store' = store
               /\ user_data' = user_data
               /\ out' = <<>>
               /\ logged' = <<>>
               /\ raised' = "none"))
     /\ (ev'.kind = "restart"
           => (/\ \A u \in Users : user_data'[u] = NoFlag
               /\ store' = store))
     /\ (ev.kind = "restart" /\ ev'.kind = "text"
           => (services' = services /\ out' = <<>>))]_vars

C14_Witness ==
  /\ ev.kind = "text"
  /\ called = <<"handle_service_description">>
  /\ user_data[ev.user] = NoFlag
  /\ out = <<>>
  /\ Len(services) = 1
  /\ services[1].description # ev.data


\* C17: a pending session flag is always a key of SERVICE_TYPES, and the
\* category of every service row is a key of SERVICE_TYPES or the tag 'custom'.
C17_FlagIsCategory ==
  /\ \A u \in Users : user_data[u] \in SERVICE_TYPES \cup {NoFlag}
  /\ \A i \in 1 .. Len(services) :
       services[i].service_type \in SERVICE_TYPES \cup {CUSTOM}

\* a press of 'service_menu' or 'service_nft' has been handled and a flag set
\* before it is still the pending one
C17_Witness ==
  /\ ev.kind = "button"
  /\ StartsWith(ev.data, PFX_SERVICE)
  /\ ~CategoryPress(ev.data)
  /\ called = <<"select_service">>
  /\ raised = "KeyError"
  /\ user_data[ev.user] = K_DEV
  /\ services # <<>>


\* C18: the handler of an update of one user leaves the flag of every other
\* user as it was, and a row created by a free-text message carries the sender
\* as submitter and the sender's own pending flag as category, whatever the
\* other user did in between.
C18_FlagsIsolated ==
  [][/\ \A v \in Users :
          (ev'.kind \in {"command", "button", "text"} /\ ev'.user # v)
            => user_data'[v] = user_data[v]
     /\ (ev'.kind = "text" /\ services' # services)
          => (/\ user_data[ev'.user] # NoFlag
              /\ services'
                   = Append(services,
                            [user_id |-> ev'.user,
                             service_type |-> user_data[ev'.user],
                             description |-> ev'.data, is_active |-> 1]))]_vars

\* the text of one user has been stored under that user's category while the
\* other user's selection of another category is still pending
C18_Witness ==
  \E u, v \in Users :
    /\ u # v
    /\ ev.kind = "text"
    /\ ev.user = v
    /\ services # <<>>
    /\ services[Len(services)].user_id = v
    /\ services[Len(services)].service_type = K_HYPE
    /\ user_data[v] = NoFlag
    /\ user_data[u] = K_DEV


\* a 'service_<B>' press arrived first and completed, and the text message that
\* arrived after it was stored under another category A, pending before
RacedPress(b, txt) ==
  /\ b.kind = "button"
  /\ CategoryPress(b.data)
  /\ b.pc = "done"
  /\ b.raised = "none"
  /\ txt.kind = "text"
  /\ txt.user = b.user
  /\ txt.pc = "done"
  /\ txt.raised # "OperationalError"
  /\ txt.sel \in SERVICE_TYPES
  /\ txt.sel # SliceFrom(b.data, 8)

C16_OneRowPerSelection ==
  /\ [](\A t \in Tasks : tasks[t].kind = "text" => tasks[t].raised # "KeyError")
  /\ [][services' # services
        => (\E t \in Tasks :
              /\ tasks[t].kind = "idle"
              /\ tasks'[t].kind = "text"
              /\ user_data[tasks'[t].user] # NoFlag
              /\ user_data'[tasks'[t].user] = NoFlag
              /\ Len(services') = Len(services) + 1)]_vars

\* the first text handler has stored its row and is suspended in reply_text
\* while the second one has run and found no flag
C16_Witness ==
  /\ tasks[1].kind = "text"
  /\ tasks[1].pc = "reply"
  /\ tasks[1].sel \in SERVICE_TYPES
  /\ tasks[2].kind = "text"
  /\ tasks[2].pc = "done"
  /\ tasks[2].sel = NoFlag
  /\ tasks[2].raised = "none"
  /\ Len(services) = 1
  /\ user_data[tasks[1].user] = NoFlag

====
